---- MODULE Spec2Model ----
(***************************************************************************)
(* Model of scripts/dq_pipeline.py: the data-quality pipeline that loads a *)
(* CSV batch, runs five Great Expectations column constraints and a        *)
(* Pydantic row validator over it, writes the valid/invalid partitions,    *)
(* alerts on failure and maps the verdict to the process exit code.        *)
(***************************************************************************)
EXTENDS Integers, Sequences, FiniteSets, TLC

(***************************************************************************)
(* Cell values.  pandas.read_csv yields, per cell, a Python int, a float,  *)
(* a str or NaN (a float).  A value is [t, s, n]: t the Python type, s the *)
(* text of a str, n the number (floats are kept in hundredths, so 2.5 is   *)
(* n = 250 and 100.0 is n = 10000).                                        *)
(***************************************************************************)
NaN == [t |-> "nan", s |-> "", n |-> 0]
PyNone == [t |-> "none", s |-> "", n |-> 0]
PyInt(i) == [t |-> "int", s |-> "", n |-> i]
PyFloat(h) == [t |-> "float", s |-> "", n |-> h]
PyStr(x) == [t |-> "str", s |-> x, n |-> 0]

\* str.strip() on the strings of the model
Strip(x) ==
    CASE x = " " -> ""
      [] x = "rs " -> "rs"
      [] x = " X1 " -> "X1"
      [] OTHER -> x

\* str.upper() on the strings of the model
Upper(x) ==
    CASE x = "rs" -> "RS"
      [] x = "india" -> "INDIA"
      [] x = "none" -> "NONE"
      [] x = "abc" -> "ABC"
      [] OTHER -> x

\* str.lower() on the strings of the model
Lower(x) ==
    CASE x = "X1" -> "x1"
      [] x = "X3" -> "x3"
      [] x = " X1 " -> " x1 "
      [] x = "None" -> "none"
      [] x = "INR" -> "inr"
      [] OTHER -> x

\* str(v) of a cell value, as far as the validators look at it
StrOf(v) ==
    CASE v.t = "str" -> v.s
      [] v.t = "nan" -> "nan"
      [] v.t = "none" -> "None"
      [] OTHER -> "<number>"

\* pd.isna(v)
IsNa(v) == v.t \in {"nan", "none"}

\* the numeric strings of the model, with the integer they parse to
IntStrings == {"5", "-3"}
IntOfStr(x) == IF x = "5" THEN 5 ELSE -3

(***************************************************************************)
(* Results of a validation step: Ok(v) or Err(exc, msg).                   *)
(***************************************************************************)
Ok(v) == [ok |-> TRUE, exc |-> "", msg |-> "", v |-> v]
Err(e, m) == [ok |-> FALSE, exc |-> e, msg |-> m, v |-> NaN]

(***************************************************************************)
(* Pydantic's type validation of the annotated fields (lax mode), which    *)
(* runs before a field_validator in its default "after" mode.              *)
(***************************************************************************)
CoreStr(v) ==
    IF v.t = "str" THEN Ok(v)
    ELSE Err("string_type", "Input should be a valid string")

CoreInt(v) ==
    CASE v.t = "int" -> Ok(v)
      [] v.t = "float" ->
           IF v.n % 100 = 0 THEN Ok(PyInt(v.n \div 100))
           ELSE Err("int_from_float",
                    "Input should be a valid integer, got a number with a fractional part")
      [] v.t = "nan" -> Err("finite_number", "Input should be a finite number")
      [] v.t = "str" ->
           IF v.s \in IntStrings THEN Ok(PyInt(IntOfStr(v.s)))
           ELSE Err("int_parsing",
                    "Input should be a valid integer, unable to parse string as an integer")
      [] OTHER -> Err("int_type", "Input should be a valid integer")

CoreFloat(v) ==
    CASE v.t = "int" -> Ok(PyFloat(v.n * 100))
      [] v.t = "float" -> Ok(v)
      [] v.t = "nan" -> Ok(v)
      [] v.t = "str" ->
           IF v.s \in IntStrings THEN Ok(PyFloat(IntOfStr(v.s) * 100))
           ELSE Err("float_parsing",
                    "Input should be a valid number, unable to parse string as a number")
      [] OTHER -> Err("float_type", "Input should be a valid number")

(***************************************************************************)
(* The field validators of AmazonOrder.                                    *)
(***************************************************************************)
order_id_not_empty(v) ==
    IF StrOf(v) = "" \/ Strip(StrOf(v)) = ""
       \/ Lower(StrOf(v)) \in {"nan", "null", "none"}
    THEN Err("ValueError", "Order ID cannot be empty")
    ELSE Ok(PyStr(Strip(StrOf(v))))

\* the body of the try block of qty_non_negative
QtyTry(v) ==
    IF v.t = "str" /\ v.s \notin IntStrings
    THEN Err("ValueError", "could not convert string to float")
    ELSE LET qty_val == CASE v.t = "int" -> v.n
                          [] v.t = "float" -> v.n \div 100
                          [] OTHER -> IntOfStr(v.s)
         IN IF qty_val < 0 THEN Err("ValueError", "Quantity must be >= 0")
            ELSE Ok(PyInt(qty_val))

qty_non_negative(v) ==
    IF IsNa(v) THEN Ok(PyInt(0))
    ELSE LET r == QtyTry(v)
         IN IF ~r.ok /\ r.exc \in {"ValueError", "TypeError"}
            THEN Err("ValueError", "Quantity must be a valid number")
            ELSE r

\* the body of the try block of amount_non_negative
AmountTry(v) ==
    IF v.t = "str" /\ v.s \notin IntStrings
    THEN Err("ValueError", "could not convert string to float")
    ELSE LET amount_val == CASE v.t = "int" -> v.n * 100
                             [] v.t = "float" -> v.n
                             [] OTHER -> IntOfStr(v.s) * 100
         IN IF amount_val < 0 THEN Err("ValueError", "Amount must be >= 0")
            ELSE Ok(PyFloat(amount_val))

amount_non_negative(v) ==
    IF IsNa(v) THEN Ok(PyFloat(0))
    ELSE LET r == AmountTry(v)
         IN IF ~r.ok /\ r.exc \in {"ValueError", "TypeError"}
            THEN Err("ValueError", "Amount must be a valid number")
            ELSE r

\* the accepted representations (the rupee sign of the source is left out: no
\* string of the model upper-cases to it); messages that quote the value in
\* the source end in "got v" / "date_str" here
InrSynonyms == {"INR", "RS", "RUPEES", "INR "}

currency_must_be_inr(v) ==
    IF IsNa(v) \/ Strip(StrOf(v)) = "" THEN Ok(PyStr("INR"))
    ELSE IF Upper(Strip(StrOf(v))) \in InrSynonyms THEN Ok(PyStr("INR"))
    ELSE Err("ValueError", "Currency must be INR, got v")

IndiaSynonyms == {"IN", "INDIA", "IN ", "IND", "INDI"}

country_must_be_india(v) ==
    IF IsNa(v) \/ Strip(StrOf(v)) = "" THEN Ok(PyStr("IN"))
    ELSE IF Upper(Strip(StrOf(v))) \in IndiaSynonyms THEN Ok(PyStr("IN"))
    ELSE Err("ValueError", "Ship country must be IN, got v")

(***************************************************************************)
(* Dates.  A date string is read as three digit groups and a separator:    *)
(* p[i].d is the number of digits of group i and p[i].v its value.         *)
(***************************************************************************)
DateParts(x) ==
    CASE x = "05-25-22" ->
           [sep |-> "-", p |-> <<[d |-> 2, v |-> 5], [d |-> 2, v |-> 25], [d |-> 2, v |-> 22]>>]
      [] x = "2022-05-25" ->
           [sep |-> "-", p |-> <<[d |-> 4, v |-> 2022], [d |-> 2, v |-> 5], [d |-> 2, v |-> 25]>>]
      [] x = "25/05/2022" ->
           [sep |-> "/", p |-> <<[d |-> 2, v |-> 25], [d |-> 2, v |-> 5], [d |-> 4, v |-> 2022]>>]
      [] x = "2022/13/45" ->
           [sep |-> "/", p |-> <<[d |-> 4, v |-> 2022], [d |-> 2, v |-> 13], [d |-> 2, v |-> 45]>>]
      [] OTHER -> [sep |-> "", p |-> <<>>]

\* date_formats, in the order the validator tries them
date_formats ==
    << [sep |-> "-", o |-> <<"m", "d", "y">>],
       [sep |-> "-", o |-> <<"m", "d", "Y">>],
       [sep |-> "-", o |-> <<"Y", "m", "d">>],
       [sep |-> "-", o |-> <<"d", "m", "Y">>],
       [sep |-> "/", o |-> <<"m", "d", "Y">>],
       [sep |-> "/", o |-> <<"m", "d", "y">>],
       [sep |-> "-", o |-> <<"d", "m", "y">>],
       [sep |-> "/", o |-> <<"d", "m", "Y">>],
       [sep |-> "/", o |-> <<"d", "m", "y">>] >>

\* one directive of datetime.strptime against one digit group
DirectiveMatches(dir, g) ==
    CASE dir = "m" -> g.d \in {1, 2} /\ g.v \in 1..12
      [] dir = "d" -> g.d \in {1, 2} /\ g.v \in 1..31
      [] dir = "y" -> g.d = 2
      [] OTHER -> g.d = 4

\* datetime.strptime(date_str, fmt) does not raise ValueError
Strptime(parts, fmt) ==
    /\ Len(parts.p) = 3
    /\ parts.sep = fmt.sep
    /\ \A i \in 1..3 : DirectiveMatches(fmt.o[i], parts.p[i])

\* parsed_date.strftime("%Y-%m-%d") as the triple <<year, month, day>>
IsoDate(parts, fmt) ==
    LET at(dir) == parts.p[CHOOSE i \in 1..3 : fmt.o[i] = dir].v
        year == IF \E i \in 1..3 : fmt.o[i] = "Y" THEN at("Y")
                ELSE IF at("y") < 69 THEN 2000 + at("y") ELSE 1900 + at("y")
    IN <<year, at("m"), at("d")>>

validate_date_format(v) ==
    IF IsNa(v) \/ Strip(StrOf(v)) = "" THEN Err("ValueError", "Date cannot be empty")
    ELSE LET parts == DateParts(Strip(StrOf(v)))
             hits == {k \in 1..Len(date_formats) : Strptime(parts, date_formats[k])}
         IN IF hits = {} THEN Err("ValueError", "Invalid date format: date_str")
            ELSE LET first == CHOOSE k \in hits : \A j \in hits : k <= j
                 IN [ok |-> TRUE, exc |-> "", msg |-> "",
                     v |-> IsoDate(parts, date_formats[first])]

(***************************************************************************)
(* Constructing an AmazonOrder: every field is type-validated and handed   *)
(* to its field validator, in declaration order; Pydantic collects the     *)
(* errors of all the failing fields into one ValidationError.              *)
(***************************************************************************)
ModelFields == <<"order_id", "qty", "amount", "currency", "ship_country", "date">>

\* row_data: the CSV column each field is read from
ColumnOf(f) ==
    CASE f = "order_id" -> "Order ID"
      [] f = "qty" -> "Qty"
      [] f = "amount" -> "Amount"
      [] f = "currency" -> "currency"
      [] f = "ship_country" -> "ship-country"
      [] OTHER -> "Date"

CoreValidate(f, v) ==
    CASE f = "qty" -> CoreInt(v)
      [] f = "amount" -> CoreFloat(v)
      [] OTHER -> CoreStr(v)

AfterValidate(f, v) ==
    CASE f = "order_id" -> order_id_not_empty(v)
      [] f = "qty" -> qty_non_negative(v)
      [] f = "amount" -> amount_non_negative(v)
      [] f = "currency" -> currency_must_be_inr(v)
      [] f = "ship_country" -> country_must_be_india(v)
      [] OTHER -> validate_date_format(v)

FieldResult(f, v) ==
    LET c == CoreValidate(f, v)
    IN IF c.ok THEN AfterValidate(f, c.v) ELSE c

\* AmazonOrder, were validation to stop at the first failing field
AmazonOrder_FirstFailureOnly(row_data) ==
    LET res == [i \in 1..Len(ModelFields) |->
                  [loc |-> ModelFields[i],
                   r |-> FieldResult(ModelFields[i], row_data[ModelFields[i]])]]
        bad == SelectSeq(res, LAMBDA e : ~e.r.ok)
    IN IF bad = <<>> THEN <<>> ELSE <<[loc |-> bad[1].loc, msg |-> bad[1].r.msg]>>

\* the line errors of the ValidationError, one per failing field, in field order
AmazonOrder(row_data) ==
    LET res == [i \in 1..Len(ModelFields) |->
                  [loc |-> ModelFields[i],
                   r |-> FieldResult(ModelFields[i], row_data[ModelFields[i]])]]
        bad == SelectSeq(res, LAMBDA e : ~e.r.ok)
    IN [i \in 1..Len(bad) |-> [loc |-> bad[i].loc, msg |-> bad[i].r.msg]]

(***************************************************************************)
(* validate_with_pydantic: the loop over the rows.  A row is a function    *)
(* from the columns of the batch to cell values; row[c] on a column the    *)
(* batch does not have raises KeyError(c).                                 *)
(***************************************************************************)
\* the try block of one iteration: <<>> when the row is valid, else str(e)
RowErrors(row) ==
    LET missing == {i \in 1..Len(ModelFields) : ColumnOf(ModelFields[i]) \notin DOMAIN row}
    IN IF missing # {}
       THEN LET first == CHOOSE i \in missing : \A j \in missing : i <= j
            IN <<[loc |-> "KeyError", msg |-> ColumnOf(ModelFields[first])]>>
       ELSE AmazonOrder([f \in {ModelFields[i] : i \in 1..Len(ModelFields)} |-> row[ColumnOf(f)]])

\* ValidateRow, were the row at index 0 taken for valid unchecked
ValidateRow_FirstRowUnchecked(acc, row, index) ==
    LET errs == IF index = 0 THEN <<>> ELSE RowErrors(row)
    IN IF errs = <<>>
       THEN [acc EXCEPT !.valid_rows = Append(@, row)]
       ELSE [acc EXCEPT !.invalid_rows =
                Append(@, [row |-> row, validation_error |-> errs, row_index |-> index])]

\* one iteration of the loop, on the row at 0-based index `index`
ValidateRow(acc, row, index) ==
    LET errs == RowErrors(row)
    IN IF errs = <<>>
       THEN [acc EXCEPT !.valid_rows = Append(@, row)]
       ELSE [acc EXCEPT !.invalid_rows =
                Append(@, [row |-> row, validation_error |-> errs, row_index |-> index])]

\* ValidateRows, were the first failing row to end the loop
RECURSIVE ValidateRows_AbortOnFailure(_, _, _)
ValidateRows_AbortOnFailure(acc, rows, k) ==
    IF k > Len(rows) THEN acc
    ELSE IF RowErrors(rows[k]) # <<>> THEN ValidateRow(acc, rows[k], k - 1)
    ELSE ValidateRows_AbortOnFailure(ValidateRow(acc, rows[k], k - 1), rows, k + 1)

RECURSIVE ValidateRows(_, _, _)
ValidateRows(acc, rows, k) ==
    IF k > Len(rows) THEN acc
    ELSE ValidateRows(ValidateRow(acc, rows[k], k - 1), rows, k + 1)

NoPydanticResults ==
    [none |-> TRUE, valid_rows |-> <<>>, invalid_rows |-> <<>>,
     total_rows |-> 0, valid_count |-> 0, invalid_count |-> 0]

\* `raises`: an exception outside the row loop (the pydantic import, the
\* column preview), which the outer handler turns into None
validate_with_pydantic(rows, raises) ==
    IF raises THEN NoPydanticResults
    ELSE LET acc == ValidateRows([valid_rows |-> <<>>, invalid_rows |-> <<>>], rows, 1)
         IN [none |-> FALSE, valid_rows |-> acc.valid_rows,
             invalid_rows |-> acc.invalid_rows, total_rows |-> Len(rows),
             valid_count |-> Len(acc.valid_rows),
             invalid_count |-> Len(acc.invalid_rows)]

(***************************************************************************)
(* validate_with_great_expectations.  A batch is [columns, rows].  Each of *)
(* the five expectations is a column-map check that skips null cells       *)
(* (except the not-null one).                                              *)
(***************************************************************************)
AllowedStatus ==
    {"Cancelled", "Shipped - Delivered to Buyer", "Shipped",
     "Shipped - Returned to Seller", "Shipped - Rejected by Buyer",
     "Shipped - Lost in Transit", "Shipped - Out for Delivery",
     "Shipped - Returning to Seller", "Shipped - Picked Up", "Pending",
     "Pending - Waiting for Pick Up", "Shipped - Damaged", "Shipping"}

\* the column each expectation reads
ExpectationColumn(i) ==
    CASE i = 1 -> "Order ID"
      [] i = 2 -> "Order ID"
      [] i = 3 -> "Qty"
      [] i = 4 -> "Amount"
      [] OTHER -> "Status"

NumExpectations == 5

\* the non-null cells of column c, by row position
NonNull(df, c) == {k \in 1..Len(df.rows) : ~IsNa(df.rows[k][c])}

\* ExpectationSuccess, were the uniqueness expectation left out
ExpectationSuccess_NoUniqueness(df, i) ==
    LET c == ExpectationColumn(i)
        cell(k) == df.rows[k][c]
    IN CASE i = 1 -> \A k \in 1..Len(df.rows) : ~IsNa(cell(k))
         [] i = 2 -> TRUE
         [] i \in {3, 4} -> \A k \in NonNull(df, c) : cell(k).n >= 0
         [] OTHER -> \A k \in NonNull(df, c) : cell(k).t = "str" /\ cell(k).s \in AllowedStatus

\* whether expectation i succeeds on a batch that has its column
ExpectationSuccess(df, i) ==
    LET c == ExpectationColumn(i)
        cell(k) == df.rows[k][c]
    IN CASE i = 1 -> \A k \in 1..Len(df.rows) : ~IsNa(cell(k))
         [] i = 2 -> \A j, k \in NonNull(df, c) : cell(j) = cell(k) => j = k
         [] i \in {3, 4} -> \A k \in NonNull(df, c) : cell(k).n >= 0
         [] OTHER -> \A k \in NonNull(df, c) : cell(k).t = "str" /\ cell(k).s \in AllowedStatus

\* What batch.validate(expectation) can do.  When the column is absent, or a
\* range check meets a str cell, the metric cannot be computed: the library
\* either records success=False with the exception, or raises.
ExpectationOutcomes(df, i) ==
    LET c == ExpectationColumn(i)
    IN IF c \notin df.columns
          \/ (i \in {3, 4} /\ \E k \in NonNull(df, c) : df.rows[k][c].t = "str")
       THEN {"fail", "raise"}
       ELSE IF ExpectationSuccess(df, i) THEN {"pass"} ELSE {"fail"}

NoGeResults == [none |-> TRUE, results |-> <<>>, success |-> FALSE]

\* the loop over the expectations: the results so far, or "raise"
RECURSIVE GeLoop(_, _, _)
GeLoop(outcome, i, validation_results) ==
    IF i > NumExpectations
    THEN [raised |-> FALSE, results |-> validation_results, calls |-> i - 1]
    ELSE IF outcome[i] = "raise"
    THEN [raised |-> TRUE, results |-> validation_results, calls |-> i]
    ELSE GeLoop(outcome, i + 1, Append(validation_results, outcome[i] = "pass"))

\* setup_raises: the import, the context or the batch definition raises;
\* outcome[i]: what batch.validate does for expectation i
validate_with_great_expectations(setup_raises, outcome) ==
    IF setup_raises THEN NoGeResults
    ELSE LET run == GeLoop(outcome, 1, <<>>)
         IN IF run.raised THEN NoGeResults
            ELSE [none |-> FALSE, results |-> run.results,
                  success |-> \A k \in 1..Len(run.results) : run.results[k]]

(***************************************************************************)
(* create_csv_files.  A file is "absent", "empty" or "rows"; a write that  *)
(* raises leaves its file as it was.                                       *)
(***************************************************************************)
NoFiles == [f \in {"valid_rows.csv", "invalid_rows.csv"} |-> "absent"]

\* w1, w2: whether the first and the second to_csv succeed
create_csv_files(files, pydantic_results, w1, w2) ==
    LET valid_content ==
            IF ~pydantic_results.none /\ pydantic_results.valid_rows # <<>>
            THEN "rows" ELSE "empty"
        invalid_content ==
            IF ~pydantic_results.none /\ pydantic_results.invalid_rows # <<>>
            THEN "rows" ELSE "empty"
    IN IF ~w1 THEN [files |-> files, ret |-> FALSE]
       ELSE IF ~w2
       THEN [files |-> [files EXCEPT !["valid_rows.csv"] = valid_content], ret |-> FALSE]
       ELSE [files |-> [files EXCEPT !["valid_rows.csv"] = valid_content,
                                     !["invalid_rows.csv"] = invalid_content],
             ret |-> TRUE]

\* The except block of main(): pd.DataFrame().to_csv for each file in turn,
\* both inside one try with a bare except, so a first write that raises
\* skips the second.
write_empty_csv_files(files, w1, w2) ==
    IF ~w1 THEN files
    ELSE IF ~w2 THEN [files EXCEPT !["valid_rows.csv"] = "empty"]
    ELSE [files EXCEPT !["valid_rows.csv"] = "empty", !["invalid_rows.csv"] = "empty"]

(***************************************************************************)
(* send_slack_alert                                                        *)
(***************************************************************************)
\* env: which of the three environment variables have the enabling value
should_send_slack_notification(env) ==
    env.GITHUB_ACTIONS \/ env.ENVIRONMENT \/ env.SLACK_NOTIFICATIONS_ENABLED

\* webhook_url: whether it is configured; post: "200", "error_status" or "raise"
send_slack_alert(webhook_url, env, post) ==
    IF ~should_send_slack_notification(env) THEN [ret |-> TRUE, outcome |-> "suppressed"]
    ELSE IF ~webhook_url THEN [ret |-> FALSE, outcome |-> "no_webhook"]
    ELSE IF post = "200" THEN [ret |-> TRUE, outcome |-> "sent"]
    ELSE IF post = "raise" THEN [ret |-> FALSE, outcome |-> "send_error"]
    ELSE [ret |-> FALSE, outcome |-> "send_failed"]

(***************************************************************************)
(* main(): the state of one run of the pipeline.                           *)
(***************************************************************************)
VARIABLES
    csv,                 \* data/amazon_orders_sample.csv as read_csv would load it
    pc,                  \* where main() is
    df,                  \* the loaded batch
    validation_results,  \* the counters and flags main() reports
    ge_results,          \* what validate_with_great_expectations returned
    ge_calls,            \* how many times it called batch.validate
    pydantic_results,    \* what validate_with_pydantic returned
    files,               \* valid_rows.csv and invalid_rows.csv
    overall_success,     \* "unset" until the verdict, then "True" or "False"
    alert,               \* the calls of send_slack_alert and the last outcome
    exit_code            \* the process exit code, -1 while running

vars == <<csv, pc, df, validation_results, ge_results, ge_calls, pydantic_results,
          files, overall_success, alert, exit_code>>

Columns == {"Order ID", "Qty", "Amount", "currency", "ship-country", "Date", "Status"}

\* the largest number of rows of the batches of Spec
MaxRows == 2

\* the row of the sample data: every field well-formed
WellFormedRow ==
    [c \in Columns |->
        CASE c = "Order ID" -> PyStr("X1")
          [] c = "Qty" -> PyInt(5)
          [] c = "Amount" -> PyFloat(10000)
          [] c = "currency" -> PyStr("INR")
          [] c = "ship-country" -> PyStr("IN")
          [] c = "Date" -> PyStr("05-25-22")
          [] OTHER -> PyStr("Shipped")]

\* the cells a column takes in the batches of Spec
BatchCells(c) ==
    CASE c = "Order ID" -> {PyStr("X1"), PyStr("X3"), NaN}
      [] c = "Qty" -> {PyInt(5), PyInt(-3)}
      [] c = "Date" -> {PyStr("05-25-22"), PyStr("2022/13/45")}
      [] OTHER -> {WellFormedRow[c]}

\* the cells a column takes in the one-row batches of SpecRow
RowCells(c) ==
    CASE c = "Order ID" -> {PyStr("X1"), PyStr(" "), PyStr("none"), NaN}
      [] c = "Qty" -> {PyInt(5), PyInt(-3), NaN, PyFloat(250), PyStr("abc")}
      [] c = "Amount" -> {PyFloat(10000), PyFloat(-150), NaN, PyStr("abc")}
      [] c = "currency" -> {PyStr("INR"), PyStr("rs "), PyStr("USD"), NaN}
      [] c = "ship-country" -> {PyStr("IN"), PyStr("US"), NaN}
      [] c = "Date" -> {PyStr("05-25-22"), PyStr("25/05/2022"), PyStr("2022/13/45"), NaN}
      [] OTHER -> {PyStr("Shipped")}

\* the row with the given cells
RowOf(id, qty, amount, currency, country, date, status) ==
    [c \in Columns |->
        CASE c = "Order ID" -> id
          [] c = "Qty" -> qty
          [] c = "Amount" -> amount
          [] c = "currency" -> currency
          [] c = "ship-country" -> country
          [] c = "Date" -> date
          [] OTHER -> status]

\* the rows of the batches of Spec: at most one cell is not the sample's
BatchRows ==
    {r \in {RowOf(id, qty, amount, currency, country, date, status) :
              id \in BatchCells("Order ID"), qty \in BatchCells("Qty"),
              amount \in BatchCells("Amount"), currency \in BatchCells("currency"),
              country \in BatchCells("ship-country"), date \in BatchCells("Date"),
              status \in BatchCells("Status")} :
        Cardinality({c \in Columns : r[c] # WellFormedRow[c]}) <= 1}

RowProduct ==
    {RowOf(id, qty, amount, currency, country, date, status) :
        id \in RowCells("Order ID"), qty \in RowCells("Qty"),
        amount \in RowCells("Amount"), currency \in RowCells("currency"),
        country \in RowCells("ship-country"), date \in RowCells("Date"),
        status \in RowCells("Status")}

\* the batch with the columns `cols` and the rows `rows` cut down to them
Batch(cols, rows) ==
    [columns |-> cols, rows |-> [k \in 1..Len(rows) |-> [c \in cols |-> rows[k][c]]]]

SeqsUpTo(S, n) == UNION {[1..k -> S] : k \in 0..n}

InitialValidationResults ==
    [ge_success |-> FALSE, pydantic_success |-> FALSE,
     failed_expectations |-> 0, invalid_rows |-> 0]

InitRun ==
    /\ pc = "load"
    /\ df = Batch({}, <<>>)
    /\ validation_results = InitialValidationResults
    /\ ge_results = NoGeResults
    /\ ge_calls = 0
    /\ pydantic_results = NoPydanticResults
    /\ files = NoFiles
    /\ overall_success = "unset"
    /\ alert = [calls |-> 0, outcome |-> "none"]
    /\ exit_code = -1

\* batches of up to MaxRows rows, with all the columns or without currency
Init ==
    /\ \E rows \in SeqsUpTo(BatchRows, MaxRows), cols \in {Columns, Columns \ {"currency"}} :
          csv = Batch(cols, rows)
    /\ InitRun

\* one-row batches over the whole range of cells, and well-formed rows in
\* batches that lack one column
InitRow ==
    /\ \/ \E r \in RowProduct : csv = Batch(Columns, <<r>>)
       \/ \E c \in Columns, r \in BatchRows : csv = Batch(Columns \ {c}, <<r>>)
    /\ InitRun

\* df = pd.read_csv(...), which raises when the file is missing or unreadable
LoadData ==
    /\ pc = "load"
    /\ \E raises \in BOOLEAN :
          IF raises
          THEN pc' = "except" /\ df' = df
          ELSE pc' = "great_expectations" /\ df' = csv
    /\ UNCHANGED <<csv, validation_results, ge_results, ge_calls, pydantic_results, files,
                   overall_success, alert, exit_code>>

\* ge_results = validate_with_great_expectations(df) and the counters from it
RunGreatExpectations ==
    /\ pc = "great_expectations"
    /\ \E setup_raises \in BOOLEAN,
          o1 \in ExpectationOutcomes(df, 1), o2 \in ExpectationOutcomes(df, 2),
          o3 \in ExpectationOutcomes(df, 3), o4 \in ExpectationOutcomes(df, 4),
          o5 \in ExpectationOutcomes(df, 5) :
          LET res == validate_with_great_expectations(setup_raises, <<o1, o2, o3, o4, o5>>)
          IN /\ ge_results' = res
             /\ ge_calls' = IF setup_raises THEN 0
                            ELSE GeLoop(<<o1, o2, o3, o4, o5>>, 1, <<>>).calls
             /\ validation_results' =
                   IF ~res.none
                   THEN [validation_results EXCEPT
                           !.ge_success = res.success,
                           !.failed_expectations =
                               Cardinality({k \in 1..Len(res.results) : ~res.results[k]})]
                   ELSE validation_results
    /\ pc' = "pydantic"
    /\ UNCHANGED <<csv, df, pydantic_results, files, overall_success, alert, exit_code>>

\* pydantic_results = validate_with_pydantic(df) and the counters from it
RunPydantic ==
    /\ pc = "pydantic"
    /\ \E raises \in BOOLEAN :
          LET res == validate_with_pydantic(df.rows, raises)
          IN /\ pydantic_results' = res
             /\ validation_results' =
                   IF ~res.none
                   THEN [validation_results EXCEPT
                           !.pydantic_success = (res.invalid_count = 0),
                           !.invalid_rows = res.invalid_count]
                   ELSE validation_results
             /\ pc' = IF ~res.none THEN "csv" ELSE "summary"
    /\ UNCHANGED <<csv, df, ge_results, ge_calls, files, overall_success, alert, exit_code>>

\* csv_created = create_csv_files(pydantic_results)
CreateCsvFiles ==
    /\ pc = "csv"
    /\ \E w1, w2 \in BOOLEAN :
          files' = create_csv_files(files, pydantic_results, w1, w2).files
    /\ pc' = "summary"
    /\ UNCHANGED <<csv, df, validation_results, ge_results, ge_calls, pydantic_results,
                   overall_success, alert, exit_code>>

\* OverallSuccess, were the verdict derived from the two counters
OverallSuccess_FromCounters(vr) ==
    vr.invalid_rows = 0 /\ vr.failed_expectations = 0

\* the verdict: ge_success and pydantic_success
OverallSuccess(vr) == vr.ge_success /\ vr.pydantic_success

\* overall_success = ... and the branch on it
DetermineOverallSuccess ==
    /\ pc = "summary"
    /\ overall_success' = IF OverallSuccess(validation_results) THEN "True" ELSE "False"
    /\ pc' = IF OverallSuccess(validation_results) THEN "exit" ELSE "notify"
    /\ UNCHANGED <<csv, df, validation_results, ge_results, ge_calls, pydantic_results, files,
                   alert, exit_code>>

\* notification_sent = send_slack_alert(slack_webhook, validation_results)
Notify ==
    /\ pc = "notify"
    /\ \E webhook_url \in BOOLEAN,
          env \in [GITHUB_ACTIONS : BOOLEAN, ENVIRONMENT : BOOLEAN,
                   SLACK_NOTIFICATIONS_ENABLED : BOOLEAN],
          post \in {"200", "error_status", "raise"} :
          alert' = [calls |-> alert.calls + 1,
                    outcome |-> send_slack_alert(webhook_url, env, post).outcome]
    /\ pc' = "exit"
    /\ UNCHANGED <<csv, df, validation_results, ge_results, ge_calls, pydantic_results, files,
                   overall_success, exit_code>>

\* ExceptExceptionCatches, were the handler a bare except
ExceptExceptionCatches_Bare(exc) == TRUE

\* whether `except Exception` catches an exception of class exc
ExceptExceptionCatches(exc) == exc # "SystemExit"

\* SysExit, were the exit code taken from notification_sent on a failed run
SysExit_CodeFromNotification ==
    /\ pc = "exit"
    /\ IF ExceptExceptionCatches("SystemExit")
       THEN pc' = "except" /\ exit_code' = exit_code
       ELSE pc' = "exited"
            /\ exit_code' = IF overall_success = "True" THEN 0
                            ELSE IF alert.outcome \in {"sent", "suppressed"} THEN 0
                            ELSE 1
    /\ UNCHANGED <<csv, df, validation_results, ge_results, ge_calls, pydantic_results, files,
                   overall_success, alert>>

\* sys.exit(0) or sys.exit(1) inside the try block: SystemExit(code) is raised
SysExit ==
    /\ pc = "exit"
    /\ IF ExceptExceptionCatches("SystemExit")
       THEN pc' = "except" /\ exit_code' = exit_code
       ELSE pc' = "exited" /\ exit_code' = IF overall_success = "True" THEN 0 ELSE 1
    /\ UNCHANGED <<csv, df, validation_results, ge_results, ge_calls, pydantic_results, files,
                   overall_success, alert>>

\* the except block: the two empty files, each write under a bare except,
\* then sys.exit(1)
HandlePipelineError ==
    /\ pc = "except"
    /\ \E w1, w2 \in BOOLEAN :
          files' = write_empty_csv_files(files, w1, w2)
    /\ exit_code' = 1
    /\ pc' = "exited"
    /\ UNCHANGED <<csv, df, validation_results, ge_results, ge_calls, pydantic_results,
                   overall_success, alert>>

Next ==
    \/ LoadData
    \/ RunGreatExpectations
    \/ RunPydantic
    \/ CreateCsvFiles
    \/ DetermineOverallSuccess
    \/ Notify
    \/ SysExit
    \/ HandlePipelineError

Spec == Init /\ [][Next]_vars

SpecRow == InitRow /\ [][Next]_vars

(***************************************************************************)
(* Properties                                                              *)
(***************************************************************************)
VerdictReached == overall_success # "unset"

\* row k of the batch (1-based) passes every field check
RowIsValid(k) == RowErrors(df.rows[k]) = <<>>

\* the entries of invalid_rows recorded for row k of the batch
InvalidEntries(k) ==
    {j \in 1..Len(pydantic_results.invalid_rows) :
        pydantic_results.invalid_rows[j].row_index = k - 1}

\* field f of a row is well-formed: its column is there and its checks pass
FieldWellFormed(row, f) ==
    /\ ColumnOf(f) \in DOMAIN row
    /\ FieldResult(f, row[ColumnOf(f)]).ok

FieldSet == {ModelFields[i] : i \in 1..Len(ModelFields)}

\* C1 (as stated): once the verdict is reached, the overall pass flag equals
\* (invalid_rows = 0 and failed_expectations = 0), also when a validator
\* returned None.
C1_Original ==
    VerdictReached =>
        ((overall_success = "True") <=>
            (validation_results.invalid_rows = 0
             /\ validation_results.failed_expectations = 0))

\* C1 (amended): once the verdict is reached, the overall pass flag equals
\* (invalid_rows = 0 and failed_expectations = 0) when both validators returned
\* a result; when either returned None the flag is false and the counter of
\* that validator is still 0.
C1_VerdictFromCounters ==
    VerdictReached =>
        /\ (~ge_results.none /\ ~pydantic_results.none) =>
              ((overall_success = "True") <=>
                  (validation_results.invalid_rows = 0
                   /\ validation_results.failed_expectations = 0))
        /\ ge_results.none =>
              overall_success = "False" /\ validation_results.failed_expectations = 0
        /\ pydantic_results.none =>
              overall_success = "False" /\ validation_results.invalid_rows = 0

C1_Witness ==
    /\ VerdictReached
    /\ ge_results.none
    /\ ~pydantic_results.none
    /\ Len(df.rows) > 0
    /\ validation_results.invalid_rows = 0
    /\ overall_success = "False"

\* C2 (as stated): when the process has exited, valid_rows.csv and
\* invalid_rows.csv have both been written (empty when the partition is
\* empty), on every path.
C2_Original ==
    pc = "exited" =>
        files["valid_rows.csv"] # "absent" /\ files["invalid_rows.csv"] # "absent"

\* the position of a step of main() in program order
PcRank(p) ==
    CASE p = "load" -> 1
      [] p = "great_expectations" -> 2
      [] p = "pydantic" -> 3
      [] p = "csv" -> 4
      [] p = "summary" -> 5
      [] p = "notify" -> 6
      [] p = "exit" -> 7
      [] p = "except" -> 8
      [] p = "exited" -> 9

\* C3: every step of main() moves forward towards the exit and none follows
\* it; the exit code is set by the exit only, and it is 0 exactly when the
\* verdict was reached and is a pass, and 1 otherwise (so 1 when the loader
\* raised): the SystemExit of the pass path is not caught by the handler.
C3_ExitCode ==
    /\ [][PcRank(pc') > PcRank(pc)]_vars
    /\ [](pc # "exited" => exit_code = -1)
    /\ [](pc = "exited" =>
            /\ exit_code \in {0, 1}
            /\ (exit_code = 0) <=> (overall_success = "True")
            /\ (VerdictReached /\ overall_success = "False") => exit_code = 1
            /\ ~VerdictReached => exit_code = 1)

C3_Witness ==
    /\ pc = "exited"
    /\ exit_code = 0
    /\ overall_success = "True"
    /\ Len(df.rows) = MaxRows

\* C4: in the result of the row validator every row has exactly one verdict:
\* the invalid entries carry distinct row indexes with their own rows, the
\* valid list is the other rows in order, and valid_count + invalid_count =
\* total_rows = the number of rows of the batch; a row is invalid exactly when
\* its own checks fail, whatever happened to the rows before it.
C4_OneVerdictPerRow ==
    ~pydantic_results.none =>
        LET n == Len(df.rows)
            inv == pydantic_results.invalid_rows
            bad == {inv[j].row_index + 1 : j \in 1..Len(inv)}
            good == SelectSeq([k \in 1..n |-> k], LAMBDA k : k \notin bad)
        IN /\ pydantic_results.total_rows = n
           /\ pydantic_results.valid_count + pydantic_results.invalid_count = n
           /\ pydantic_results.valid_count = Len(pydantic_results.valid_rows)
           /\ pydantic_results.invalid_count = Len(inv)
           /\ bad \subseteq 1..n
           /\ Cardinality(bad) = Len(inv)
           /\ \A j \in 1..Len(inv) : inv[j].row = df.rows[inv[j].row_index + 1]
           /\ pydantic_results.valid_rows = [j \in 1..Len(good) |-> df.rows[good[j]]]
           /\ \A k \in 1..n : (k \in bad) <=> ~RowIsValid(k)

C4_Witness ==
    /\ ~pydantic_results.none
    /\ Len(df.rows) = 2
    /\ ~RowIsValid(1)
    /\ RowIsValid(2)
    /\ Len(pydantic_results.invalid_rows) = 1
    /\ pydantic_results.valid_rows = <<df.rows[2]>>

\* the fields of a row (of a batch with all six columns) whose checks fail
FailingFields(row) ==
    SelectSeq(ModelFields, LAMBDA f : ~FieldResult(f, row[ColumnOf(f)]).ok)

HasModelColumns(row) == \A f \in FieldSet : ColumnOf(f) \in DOMAIN row

NegativeOnly(row, f) ==
    /\ HasModelColumns(row)
    /\ row[ColumnOf(f)].t \in {"int", "float"}
    /\ row[ColumnOf(f)].n < 0
    /\ \A g \in FieldSet \ {f} : FieldWellFormed(row, g)

\* C6 (as stated): a row whose quantity (or amount) is a negative number, the
\* other fields well-formed, is Invalid with the "must be >= 0" reason, which
\* is not the reason given for a non-numeric value.
C6_Original ==
    ~pydantic_results.none =>
        \A k \in 1..Len(df.rows) :
            /\ NegativeOnly(df.rows[k], "qty") =>
                  \E j \in InvalidEntries(k) :
                      pydantic_results.invalid_rows[j].validation_error =
                          <<[loc |-> "qty", msg |-> "Quantity must be >= 0"]>>
            /\ NegativeOnly(df.rows[k], "amount") =>
                  \E j \in InvalidEntries(k) :
                      pydantic_results.invalid_rows[j].validation_error =
                          <<[loc |-> "amount", msg |-> "Amount must be >= 0"]>>

\* C7 (as stated): in a batch without a currency column, a row whose other
\* five fields are well-formed is Valid, and no row is Invalid because of
\* currency.
C7_Original ==
    (~pydantic_results.none /\ "currency" \notin df.columns) =>
        /\ \A k \in 1..Len(df.rows) :
              (\A g \in FieldSet \ {"currency"} : FieldWellFormed(df.rows[k], g)) =>
                  InvalidEntries(k) = {}
        /\ \A j \in 1..Len(pydantic_results.invalid_rows) :
              \A i \in 1..Len(pydantic_results.invalid_rows[j].validation_error) :
                  LET err == pydantic_results.invalid_rows[j].validation_error[i]
                  IN err.loc # "currency" /\ err.msg # "currency"

\* field f of the row is missing (NaN or None) and the other five are well-formed
MissingOnly(row, f) ==
    /\ HasModelColumns(row)
    /\ IsNa(row[ColumnOf(f)])
    /\ \A g \in FieldSet \ {f} : FieldWellFormed(row, g)

\* C8 (as stated): a row whose quantity, amount, currency or country value is
\* missing, the other fields well-formed, is Valid.
C8_Original ==
    ~pydantic_results.none =>
        \A k \in 1..Len(df.rows) :
            \A f \in {"qty", "amount", "currency", "ship_country"} :
                MissingOnly(df.rows[k], f) => InvalidEntries(k) = {}

\* every row passes the row checks and two rows carry the same identifier
ValidRowsWithDuplicateId ==
    /\ "Order ID" \in df.columns
    /\ \A k \in 1..Len(df.rows) : RowIsValid(k)
    /\ \E j, k \in 1..Len(df.rows) :
          j # k /\ df.rows[j]["Order ID"] = df.rows[k]["Order ID"]

\* C9 (as stated): a run on a batch whose rows are all Valid and in which two
\* rows share an identifier reports invalid_rows = 0, failed_expectations >= 1
\* and a failed verdict, and exits non-zero.
C9_Original ==
    (pc = "exited" /\ ValidRowsWithDuplicateId) =>
        /\ validation_results.invalid_rows = 0
        /\ validation_results.failed_expectations >= 1
        /\ overall_success = "False"
        /\ exit_code # 0

\* C9 (amended): such a run reports invalid_rows = 0 and a failed verdict and
\* exits non-zero; it reports failed_expectations >= 1 when the dataset
\* validator returned its results, and failed_expectations = 0 when the dataset
\* validator returned None.
C9_DuplicateIdFailsRun ==
    (pc = "exited" /\ ValidRowsWithDuplicateId) =>
        /\ validation_results.invalid_rows = 0
        /\ ~ge_results.none =>
              /\ validation_results.failed_expectations >= 1
              /\ ~ge_results.results[2]
        /\ ge_results.none => validation_results.failed_expectations = 0
        /\ overall_success = "False"
        /\ exit_code = 1

C9_Witness ==
    /\ pc = "exited"
    /\ ValidRowsWithDuplicateId
    /\ ~ge_results.none
    /\ ~pydantic_results.none
    /\ pydantic_results.valid_count = 2
    /\ validation_results.failed_expectations = 1
    /\ exit_code = 1

RowOrders(n) == {p \in [1..n -> 1..n] : \A i, j \in 1..n : p[i] = p[j] => i = j}

\* the verdict a result gives the row at position k: <<>> for Valid, else the
\* validation_error of its entry
VerdictOf(res, k) ==
    IF \E j \in 1..Len(res.invalid_rows) : res.invalid_rows[j].row_index = k - 1
    THEN res.invalid_rows[CHOOSE j \in 1..Len(res.invalid_rows) :
                             res.invalid_rows[j].row_index = k - 1].validation_error
    ELSE <<>>

\* C10: the row validator run on any permutation of the batch gives every row
\* the verdict and the reason it has in the result of this run, and the same
\* valid_count and invalid_count.
C10_OrderIndependent ==
    ~pydantic_results.none =>
        \A p \in RowOrders(Len(df.rows)) :
            LET permuted == [k \in 1..Len(df.rows) |-> df.rows[p[k]]]
                res == validate_with_pydantic(permuted, FALSE)
            IN /\ res.valid_count = pydantic_results.valid_count
               /\ res.invalid_count = pydantic_results.invalid_count
               /\ \A k \in 1..Len(df.rows) :
                     VerdictOf(res, k) = VerdictOf(pydantic_results, p[k])

C10_Witness ==
    /\ ~pydantic_results.none
    /\ Len(df.rows) = 2
    /\ df.rows[1] # df.rows[2]
    /\ pydantic_results.invalid_count = 2
    /\ VerdictOf(pydantic_results, 1) # VerdictOf(pydantic_results, 2)

\* the dataset validator has been called on the loaded batch and got as far as
\* its loop over the expectations
DatasetValidatorRan == pc \in {"pydantic", "csv", "summary", "notify", "exit", "exited"}
                       /\ ge_calls >= 1

\* the expectations that do not pass on the loaded batch
NotPassing == {i \in 1..NumExpectations : "pass" \notin ExpectationOutcomes(df, i)}

\* C11 (as stated): every run of the dataset validator that reaches its loop
\* evaluates all five constraints and returns one result per constraint, also
\* when evaluating one of them raises, and failed_expectations is the number of
\* the five constraints that did not pass.
C11_Original ==
    DatasetValidatorRan =>
        /\ ge_calls = NumExpectations
        /\ ~ge_results.none
        /\ Len(ge_results.results) = NumExpectations
        /\ \A i \in 1..NumExpectations : ge_results.results[i] <=> i \notin NotPassing
        /\ validation_results.failed_expectations = Cardinality(NotPassing)

\* the outcomes send_slack_alert can have
AlertOutcomes == {"suppressed", "no_webhook", "sent", "send_error", "send_failed"}

\* both validators have returned and their counters are recorded
BothValidatorsFinished == pc \in {"csv", "summary", "notify", "exit"}

\* C12: in every run send_slack_alert is called at most once; the call happens
\* only with overall_success False, after both validators have finished and
\* before the process exits; and whatever the call's outcome (sent, suppressed
\* for the environment, webhook missing, send failed or raised), a run that
\* called it exits with code 1, as a failed run exits that did not reach it.
C12_AlertOnceOnFailure ==
    /\ [](alert.calls <= 1)
    /\ [](alert.calls = 0 <=> alert.outcome = "none")
    /\ [](alert.calls = 1 => /\ overall_success = "False"
                             /\ alert.outcome \in AlertOutcomes
                             /\ pc \in {"exit", "exited"})
    /\ [][alert' # alert => /\ alert.calls = 0 /\ alert'.calls = 1
                            /\ overall_success = "False"
                            /\ BothValidatorsFinished
                            /\ pc # "exited" /\ exit_code = -1]_vars
    /\ [](pc = "exited" /\ alert.calls = 1 => exit_code = 1)
    /\ [](pc = "exited" /\ overall_success = "True" => alert.calls = 0 /\ exit_code = 0)

\* a failed run that exited after an alert whose send raised
C12_Witness ==
    /\ pc = "exited"
    /\ exit_code = 1
    /\ overall_success = "False"
    /\ alert = [calls |-> 1, outcome |-> "send_error"]

====
